---------------------------- MODULE Spec2Model ----------------------------
(***************************************************************************)
(* Model of download.js: the AnyList recipe export.  The main coroutine    *)
(* downloadRecipes() logs in, fetches the recipes, writes the JSON archive *)
(* and renders one PDF per selected recipe; each PDF is produced by an     *)
(* async Promise executor writing into a pdfkit document piped to a file   *)
(* write stream.  Event-loop callbacks (stream 'error'/'finish', image     *)
(* download completion) are the actions of the model.                      *)
(*                                                                         *)
(* Conventions.  An optional JS value is <<>> (undefined) or <<v>>.        *)
(* Strings on which the code works character by character (recipe names,   *)
(* preparation steps) are sequences of one-character strings.  A string    *)
(* that the code splits on "\n" is given as the sequence of its lines.     *)
(* Dates are computed in UTC.                                              *)
(***************************************************************************)
EXTENDS Integers, Sequences, FiniteSets, TLC

VARIABLES
    served,      \* what the recipe service will return from getRecipes()
    maxPDFs,     \* the configured limit (maxPDFsToGenerate)
    dirExists,   \* whether the directory recipe-pdfs exists on disk
    dirEnsured,  \* whether the mkdir step of this run has been executed
    pc,          \* position of the main coroutine downloadRecipes()
    recipes,     \* const recipes
    toProcess,   \* const recipesToProcess
    idx,         \* position of the for-of loop in recipesToProcess (1-based)
    exec,        \* per recipe: state of the async Promise executor
    stream,      \* per recipe: state of the file write stream
    promise,     \* per recipe: state of the awaited Promise
    image,       \* per recipe: outcome of the photo block
    doc,         \* per recipe: sections written to the PDFDocument so far
    files,       \* the file system below recipe-pdfs: path -> file
    log,         \* console output, as a set of entries
    fatal,       \* the error that rejected downloadRecipes(), if any
    warned,      \* an unhandled-rejection warning has been printed
    exitCode     \* <<>> while the process runs, <<code>> once it has ended

vars == << served, maxPDFs, dirExists, dirEnsured, pc, recipes, toProcess, idx,
           exec, stream, promise, image, doc, files, log, fatal, warned, exitCode >>

-----------------------------------------------------------------------------
(* Bounds of the model *)

MaxRecipes == 2

MaxSteps == 3

-----------------------------------------------------------------------------
(* JavaScript helpers *)

None == <<>>

Some(v) == <<v>>

Min(a, b) == IF a <= b THEN a ELSE b

Max(a, b) == IF a >= b THEN a ELSE b

\* truthiness of an optional string: undefined and "" are falsy
TruthyStr(o) == o # None /\ o[1] # ""

\* truthiness of an optional number: undefined and 0 are falsy
TruthyNum(o) == o # None /\ o[1] # 0

\* truthiness of an optional multi-line string given by its lines:
\* the empty string has the single, empty line
TruthyLines(o) == o # None /\ o[1] # << <<>> >>

\* Array.prototype.slice(0, end)
Slice0(s, end) ==
    LET n == Len(s)
        k == IF end < 0 THEN Max(n + end, 0) ELSE Min(end, n)
    IN  SubSeq(s, 1, k)

\* String.prototype.trim on a character sequence
RECURSIVE TrimLeft(_)
TrimLeft(s) == IF s # <<>> /\ Head(s) = " " THEN TrimLeft(Tail(s)) ELSE s

RECURSIVE TrimRight(_)
TrimRight(s) ==
    IF s # <<>> /\ s[Len(s)] = " " THEN TrimRight(SubSeq(s, 1, Len(s) - 1)) ELSE s

Trim(s) == TrimRight(TrimLeft(s))

\* String.prototype.startsWith('#')
StartsWithHash(s) == s # <<>> /\ s[1] = "#"

\* String.prototype.substring(1)
Substring1(s) == SubSeq(s, 2, Len(s))

-----------------------------------------------------------------------------
(* sanitizeFilename and formatDate *)

SpecialChars == {"/", "\\", "?", "%", "*", ":", "|", "\"", "<", ">"}

sanitizeFilename(name) ==
    Trim([k \in 1..Len(name) |-> IF name[k] \in SpecialChars THEN "-" ELSE name[k]])

\* new Date(timestamp * 1000): the civil date <<year, month, day>> of a Unix
\* timestamp in seconds
CivilDate(timestamp) ==
    LET z     == (timestamp \div 86400) + 719468
        era   == z \div 146097
        doe   == z - era * 146097
        yoe   == (doe - (doe \div 1460) + (doe \div 36524) - (doe \div 146096)) \div 365
        doy   == doe - (365 * yoe + (yoe \div 4) - (yoe \div 100))
        mp    == (5 * doy + 2) \div 153
        d     == doy - ((153 * mp + 2) \div 5) + 1
        m     == IF mp < 10 THEN mp + 3 ELSE mp - 9
        y     == yoe + era * 400 + (IF m <= 2 THEN 1 ELSE 0)
    IN  << y, m, d >>

MonthNames == << "January", "February", "March", "April", "May", "June", "July",
                 "August", "September", "October", "November", "December" >>

Pad2(n) == IF n < 10 THEN "0" \o ToString(n) ELSE ToString(n)

formatDate(timestamp) ==
    LET date == CivilDate(timestamp)
    IN  [ fileName |-> IF date[1] < 2000 THEN <<>>
                       ELSE << Pad2(date[2]), "-", Pad2(date[3]), "-", ToString(date[1]) >>,
          display  |-> IF date[1] < 2000 THEN << "Unknown" >>
                       ELSE << MonthNames[date[2]], " ", ToString(date[3]), ", ",
                               ToString(date[1]) >> ]

\* filename of a recipe (lines 100-102); recipe.name is present
FileName(recipe) ==
    LET dateStr == formatDate(recipe.creationTimestamp)
    IN  (IF dateStr.fileName # <<>> THEN dateStr.fileName \o << " - " >> ELSE <<>>)
        \o sanitizeFilename(recipe.name[1])

\* path.join('recipe-pdfs', `${filename}.pdf`)
OutputPath(recipe) == << "recipe-pdfs", "/" >> \o FileName(recipe) \o << ".pdf" >>

ArchivePath == << "recipe-pdfs", "/", "all-recipes.json" >>

-----------------------------------------------------------------------------
(* The sections the executor writes to the PDFDocument (lines 114-304).    *)
(* A section is [kind, runs]; a run is one text() call with the font in    *)
(* force when it is made.                                                  *)

Bold == "Helvetica-Bold"

Regular == "Helvetica"

Oblique == "Helvetica-Oblique"

Run(font, text) == [font |-> font, text |-> text]

Link(font, text, url) == [font |-> font, text |-> text, link |-> url]

Section(kind, runs) == [kind |-> kind, runs |-> runs]

\* lines 114-116
TitleSection(recipe) == << Section("Title", << Run(Bold, recipe.name[1]) >>) >>

\* recipe.photoIds && recipe.photoIds.length > 0 (line 119)
HasPhoto(recipe) == recipe.photoIds # None /\ Len(recipe.photoIds[1]) > 0

\* `https://photos.anylist.com/${recipe.photoIds[0]}.jpg` (line 121)
PhotoUrl(recipe) == << "https://photos.anylist.com/", recipe.photoIds[1][1], ".jpg" >>

maxWidth == 200

maxHeight == 200

\* lines 124-144: the placed size width*ratio x height*ratio with
\* ratio = min(maxWidth / width, maxHeight / height), as exact fractions
ImageSection(recipe, dims) ==
    LET width  == dims[1]
        height == dims[2]
        byWidth == maxWidth * height <= maxHeight * width
        num == IF byWidth THEN maxWidth  ELSE maxHeight
        den == IF byWidth THEN width     ELSE height
    IN  << [ kind |-> "Image", runs |-> <<>>, url |-> PhotoUrl(recipe),
             width  |-> [num |-> width * num,  den |-> den],
             height |-> [num |-> height * num, den |-> den] ] >>

\* lines 150-154
CreatedSection(recipe) ==
    << Section("Created",
         << Run(Bold, "Created:"),
            Run(IF CivilDate(recipe.creationTimestamp)[1] < 2000 THEN Oblique ELSE Regular,
                formatDate(recipe.creationTimestamp).display) >>) >>

\* lines 156-189
SourceSection(recipe) ==
    IF TruthyStr(recipe.sourceName) \/ TruthyStr(recipe.sourceUrl)
    THEN << Section("Source",
              << Run(Bold, "Source:") >> \o
              ( IF TruthyStr(recipe.sourceName) /\ TruthyStr(recipe.sourceUrl)
                THEN << Link(Regular, recipe.sourceName[1], recipe.sourceUrl[1]) >>
                ELSE ( IF TruthyStr(recipe.sourceName)
                       THEN << Run(Regular, recipe.sourceName[1]) >> ELSE <<>> ) \o
                     ( IF TruthyStr(recipe.sourceUrl)
                       THEN << Run(Bold, "Source URL:"),
                               Link(Bold, recipe.sourceUrl[1], recipe.sourceUrl[1]) >>
                       ELSE <<>> ) )) >>
    ELSE <<>>

\* lines 191-196
ServingsSection(recipe) ==
    IF TruthyNum(recipe.servings)
    THEN << Section("Servings", << Run(Bold, "Servings:"),
                                   Run(Regular, << " ", recipe.servings[1] >>) >>) >>
    ELSE <<>>

\* the rating block without its else branch
RatingSection_NoElse(recipe) ==
    IF TruthyNum(recipe.rating)
    THEN << Section("Rating", << Run(Bold, "Rating:"),
                                 Run(Regular, << " ", recipe.rating[1], " stars" >>) >>) >>
    ELSE <<>>

\* lines 198-208
RatingSection(recipe) ==
    IF TruthyNum(recipe.rating)
    THEN << Section("Rating", << Run(Bold, "Rating:"),
                                 Run(Regular, << " ", recipe.rating[1], " stars" >>) >>) >>
    ELSE << Section("Rating", << Run(Bold, "Rating:"),
                                 Run(Regular, << " No rating available" >>) >>) >>

\* lines 210-217: the minutes are seconds / 60, kept as a fraction
TimesSection(recipe) ==
    IF TruthyNum(recipe.prepTime) \/ TruthyNum(recipe.cookTime)
    THEN << Section("Times",
              << Run(Regular,
                   ( IF TruthyNum(recipe.prepTime)
                     THEN << << "Prep Time: ", [num |-> recipe.prepTime[1], den |-> 60], " min" >> >>
                     ELSE <<>> ) \o
                   ( IF TruthyNum(recipe.cookTime)
                     THEN << << "Cook Time: ", [num |-> recipe.cookTime[1], den |-> 60], " min" >> >>
                     ELSE <<>> )) >>) >>
    ELSE <<>>

\* lines 219-223
CategoriesSection(recipe) ==
    IF recipe.categories # None /\ Len(recipe.categories[1]) > 0
    THEN << Section("Categories", << Run(Regular, << "Categories: ", recipe.categories[1] >>) >>) >>
    ELSE <<>>

\* lines 225-230
EarlyNotesSection(recipe) ==
    IF TruthyStr(recipe.notes)
    THEN << Section("Notes", << Run(Regular, "Notes:"), Run(Regular, recipe.notes[1]) >>) >>
    ELSE <<>>

\* lines 234-238: the heading, written before the ingredients are read
IngredientsHeading == Run(Bold, "Ingredients:")

\* lines 239-243
IngredientsSection(recipe) ==
    << Section("Ingredients",
         << IngredientsHeading >> \o
         [k \in 1..Len(recipe.ingredients[1]) |->
             Run(Regular, recipe.ingredients[1][k].rawIngredient)]) >>

\* recipe.instructions.split('\n').filter(step => step.trim()) (line 252);
\* a line is blank when trimming leaves nothing
RECURSIVE NonBlank(_)
NonBlank(lines) ==
    IF lines = <<>> THEN <<>>
    ELSE (IF Trim(Head(lines)) # <<>> THEN << Head(lines) >> ELSE <<>>) \o NonBlank(Tail(lines))

\* lines 245-257
InstructionsSection(recipe) ==
    IF TruthyLines(recipe.instructions)
    THEN LET steps == NonBlank(recipe.instructions[1])
         IN  << Section("Instructions",
                  << Run(Bold, "Instructions:") >> \o
                  [k \in 1..Len(steps) |-> Run(Regular, << k, ". ", Trim(steps[k]) >>)]) >>
    ELSE <<>>

\* the forEach with stepNumber++ moved out of the else branch
RECURSIVE StepRuns_CountAll(_, _)
StepRuns_CountAll(steps, stepNumber) ==
    IF steps = <<>> THEN <<>>
    ELSE LET trimmedStep == Trim(Head(steps))
         IN  IF StartsWithHash(trimmedStep)
             THEN << Run(Bold, Trim(Substring1(trimmedStep))) >>
                  \o StepRuns_CountAll(Tail(steps), stepNumber + 1)
             ELSE << Run(Bold, << stepNumber, "." >>),
                     Run(Regular, << " " >> \o trimmedStep) >>
                  \o StepRuns_CountAll(Tail(steps), stepNumber + 1)

\* lines 265-280: the forEach over preparationSteps with the counter
\* stepNumber; a numbered step is the bold run `${stepNumber}.` followed by
\* the regular run ` ${trimmedStep}`
RECURSIVE StepRuns(_, _)
StepRuns(steps, stepNumber) ==
    IF steps = <<>> THEN <<>>
    ELSE LET trimmedStep == Trim(Head(steps))
         IN  IF StartsWithHash(trimmedStep)
             THEN << Run(Bold, Trim(Substring1(trimmedStep))) >>
                  \o StepRuns(Tail(steps), stepNumber)
             ELSE << Run(Bold, << stepNumber, "." >>),
                     Run(Regular, << " " >> \o trimmedStep) >>
                  \o StepRuns(Tail(steps), stepNumber + 1)

\* lines 259-281
PreparationSection(recipe) ==
    IF recipe.preparationSteps # None /\ Len(recipe.preparationSteps[1]) > 0
    THEN << Section("Preparation Steps",
              << Run(Bold, "Preparation Steps:") >> \o StepRuns(recipe.preparationSteps[1], 1)) >>
    ELSE <<>>

\* recipe.notes || recipe.note
NoteOrNotes_PreferNotes(recipe) ==
    IF TruthyStr(recipe.notes) THEN recipe.notes[1] ELSE recipe.note[1]

\* recipe.note || recipe.notes (line 288)
NoteOrNotes(recipe) == IF TruthyStr(recipe.note) THEN recipe.note[1] ELSE recipe.notes[1]

\* lines 283-290
LateNotesSection(recipe) ==
    IF TruthyStr(recipe.note) \/ TruthyStr(recipe.notes)
    THEN << Section("Notes", << Run(Bold, "Notes:"), Run(Regular, NoteOrNotes(recipe)) >>) >>
    ELSE <<>>

\* lines 292-304
NutritionSection(recipe) ==
    IF TruthyLines(recipe.nutritionalInfo)
    THEN << Section("Nutritional Information",
              << Run(Bold, "Nutritional Information:") >> \o
              [k \in 1..Len(recipe.nutritionalInfo[1]) |->
                  Run(Regular, recipe.nutritionalInfo[1][k])]) >>
    ELSE <<>>

\* lines 150-237: everything from Created up to the Ingredients heading
BeforeIngredients(recipe) ==
    CreatedSection(recipe) \o SourceSection(recipe) \o ServingsSection(recipe) \o
    RatingSection(recipe) \o TimesSection(recipe) \o CategoriesSection(recipe) \o
    EarlyNotesSection(recipe)

\* lines 239-304: from the ingredient lines to the end of the document
FromIngredients(recipe) ==
    IngredientsSection(recipe) \o InstructionsSection(recipe) \o
    PreparationSection(recipe) \o LateNotesSection(recipe) \o NutritionSection(recipe)

-----------------------------------------------------------------------------
(* Inputs: the recipe records the service may return *)

\* a recipe with a name, no optional field and an empty ingredients list
BlankRecipe ==
    [ name |-> Some(<< "a" >>), creationTimestamp |-> 946684800, photoIds |-> None,
      sourceName |-> None, sourceUrl |-> None, servings |-> None, rating |-> None,
      prepTime |-> None, cookTime |-> None, categories |-> None, notes |-> None,
      note |-> None, ingredients |-> Some(<<>>), instructions |-> None,
      preparationSteps |-> None, nutritionalInfo |-> None ]

SeqsUpTo(S, n) == UNION { [1..k -> S] : k \in 0..n }

\* 1970-01-01 and 2000-01-01, in seconds
Timestamps == { 0, 946684800 }

\* recipes that differ in what the orchestration depends on: the name (absent,
\* or two names that sanitize alike), the date, a photo, the ingredients list
OrchestratorRecipes ==
    { [BlankRecipe EXCEPT !.name = n, !.creationTimestamp = t, !.photoIds = p,
                          !.ingredients = g] :
        n \in { None, Some(<< "a", "/" >>), Some(<< "a", ":" >>) },
        t \in Timestamps,
        p \in { None, Some(<< "p1", "p2" >>) },
        g \in { None, Some(<<>>) } }

OptStr(v) == { None, Some(v) }

OptNum(v) == { None, Some(v) }

\* recipes with every combination of the optional fields absent or present,
\* and the recipes without optional fields over date, photo and ingredients
RenderRecipes ==
    { [ name |-> Some(<< "a" >>), creationTimestamp |-> 946684800, photoIds |-> p,
        sourceName |-> sn, sourceUrl |-> su, servings |-> sv, rating |-> rt,
        prepTime |-> pt, cookTime |-> ct, categories |-> cg, notes |-> ns,
        note |-> nt, ingredients |-> Some(<< [rawIngredient |-> "1 egg"] >>),
        instructions |-> ins, preparationSteps |-> ps, nutritionalInfo |-> nu ] :
        p \in { None, Some(<< "p1" >>) },
        sn \in OptStr("blog"), su \in OptStr("http://x"), sv \in OptNum(4),
        rt \in OptNum(5), pt \in OptNum(600), ct \in OptNum(90),
        cg \in { None, Some(<< "Soup" >>) }, ns \in OptStr("B"), nt \in OptStr("A"),
        ins \in { None, Some(<< << "m", "i", "x" >>, << " " >>, << "b", "a", "k", "e" >> >>) },
        ps \in { None, Some(<< << "#", "h" >>, << "x" >> >>) },
        nu \in { None, Some(<< << "k", "J" >> >>) } }
    \cup { [BlankRecipe EXCEPT !.creationTimestamp = t, !.photoIds = p, !.ingredients = g] :
             t \in Timestamps, p \in { None, Some(<< "p1" >>) }, g \in { None, Some(<<>>) } }

\* recipes over every combination of note and notes: absent, empty, a text
NotesRecipes ==
    { [BlankRecipe EXCEPT !.note = nt, !.notes = ns, !.photoIds = p, !.ingredients = g,
                          !.preparationSteps = ps, !.rating = rt] :
        nt \in { None, Some(""), Some("A") }, ns \in { None, Some(""), Some("B") },
        p \in { None, Some(<< "p1" >>) }, g \in { None, Some(<<>>) },
        ps \in { None, Some(<< << "x" >> >>) }, rt \in { None, Some(0), Some(5) } }

\* preparation steps: empty, blank, headings (bare, with text, with spaces
\* before, after and behind the #) and plain steps (with spaces around)
StepStrings ==
    { <<>>, << " " >>, << "#" >>, << "x" >>, << "#", "x" >>, << " ", "#" >>, << "#", " " >>,
      << " ", "x" >>, << "x", " " >>, << "#", " ", "x" >> }

\* recipes over every preparationSteps list within the bounds
StepsRecipes ==
    { [BlankRecipe EXCEPT !.preparationSteps = Some(ps)] : ps \in SeqsUpTo(StepStrings, MaxSteps) }
    \cup { [BlankRecipe EXCEPT !.photoIds = p, !.ingredients = g] :
             p \in { None, Some(<< "p1" >>) }, g \in { None, Some(<<>>) } }

\* intrinsic sizes of a downloaded image
ImageDims == { << 400, 200 >>, << 50, 100 >> }

-----------------------------------------------------------------------------
(* Configuration (lines 61-63) *)

generatePDF == TRUE

maxPDFsToGenerate == 1000

\* the limits a configuration may set
MaxChoices == { -2, -1, 0, 1, maxPDFsToGenerate }

-----------------------------------------------------------------------------
(* Initial states *)

Start ==
    /\ dirEnsured = FALSE
    /\ pc = "login"
    /\ recipes = <<>>
    /\ toProcess = <<>>
    /\ idx = 1
    /\ exec = <<>>
    /\ stream = <<>>
    /\ promise = <<>>
    /\ image = <<>>
    /\ doc = <<>>
    /\ files = <<>>
    /\ log = {}
    /\ fatal = None
    /\ warned = FALSE
    /\ exitCode = None

Init ==
    /\ served \in SeqsUpTo(OrchestratorRecipes, MaxRecipes)
    /\ maxPDFs \in MaxChoices
    /\ dirExists \in BOOLEAN
    /\ Start

InitRender ==
    /\ served \in { << r >> : r \in RenderRecipes }
    /\ maxPDFs = maxPDFsToGenerate
    /\ dirExists = TRUE
    /\ Start

InitNotes ==
    /\ served \in { << r >> : r \in NotesRecipes }
    /\ maxPDFs = maxPDFsToGenerate
    /\ dirExists = TRUE
    /\ Start

InitSteps ==
    /\ served \in { << r >> : r \in StepsRecipes }
    /\ maxPDFs = maxPDFsToGenerate
    /\ dirExists = TRUE
    /\ Start

-----------------------------------------------------------------------------
(* The main coroutine downloadRecipes() *)

Alive == exitCode = None

Entry(msg, arg) == [msg |-> msg, arg |-> arg]

\* a rejection of an awaited call propagates out of downloadRecipes()
Reject(error) ==
    /\ fatal' = Some(error)
    /\ pc' = "rejected"

\* await anylist.login() (line 66)
Login ==
    /\ Alive /\ pc = "login"
    /\ \E ok \in BOOLEAN :
          IF ok THEN pc' = "getRecipes" /\ UNCHANGED fatal
                ELSE Reject("AuthError")
    /\ UNCHANGED << served, maxPDFs, dirExists, dirEnsured, recipes, toProcess, idx,
                    exec, stream, promise, image, doc, files, log, warned, exitCode >>

\* const recipes = await anylist.getRecipes() (line 69)
GetRecipes ==
    /\ Alive /\ pc = "getRecipes"
    /\ \E ok \in BOOLEAN :
          IF ok THEN pc' = "writeArchive" /\ recipes' = served /\ UNCHANGED fatal
                ELSE Reject("FetchListError") /\ UNCHANGED recipes
    /\ UNCHANGED << served, maxPDFs, dirExists, dirEnsured, toProcess, idx,
                    exec, stream, promise, image, doc, files, log, warned, exitCode >>

\* JSON.stringify(recipes, null, 2): the array with one element per recipe
recipesJson(rs) == [kind |-> "json", indent |-> 2, elements |-> rs]

\* await fsPromises.writeFile('recipe-pdfs/all-recipes.json', recipesJson)
\* (lines 72-74): ENOENT when the directory is missing; otherwise the write
\* succeeds or fails with an I/O error
WriteArchive ==
    /\ Alive /\ pc = "writeArchive"
    /\ \E ok \in BOOLEAN :
          IF dirExists /\ ok
          THEN /\ files' = (ArchivePath :> [owner |-> 0, complete |-> TRUE,
                                            content |-> recipesJson(recipes)]) @@ files
               /\ log' = log \cup { Entry("Saved all recipes to all-recipes.json", 0) }
               /\ pc' = "generate"
               /\ UNCHANGED fatal
          ELSE /\ Reject(IF dirExists THEN "EIO" ELSE "ENOENT")
               /\ UNCHANGED << files, log >>
    /\ UNCHANGED << served, maxPDFs, dirExists, dirEnsured, recipes, toProcess, idx,
                    exec, stream, promise, image, doc, warned, exitCode >>

\* lines 76-81: mkdir('recipe-pdfs', {recursive: true}) and the selection
Mkdir ==
    /\ Alive /\ pc = "generate"
    /\ IF generatePDF
       THEN LET recipesToProcess ==
                    IF maxPDFs = -1 THEN recipes ELSE Slice0(recipes, maxPDFs)
                each(v) == [i \in 1..Len(recipesToProcess) |-> v]
            IN  /\ dirExists' = TRUE
                /\ dirEnsured' = TRUE
                /\ toProcess' = recipesToProcess
                /\ exec' = each("idle")
                /\ stream' = each("none")
                /\ promise' = each("pending")
                /\ image' = each("none")
                /\ doc' = each(<<>>)
                /\ pc' = "loop"
       ELSE /\ pc' = "summary"
            /\ UNCHANGED << dirExists, dirEnsured, toProcess, exec, stream, promise,
                            image, doc >>
    /\ idx' = 1
    /\ UNCHANGED << served, maxPDFs, recipes, files, log, fatal, warned, exitCode >>

\* lines 239-307 for recipe i, after doc holds `before` and `logged` was
\* printed: reading recipe.ingredients throws when the list is absent, after
\* the heading has been written; otherwise the document is ended and the
\* success logged
Finish(i, before, logged) ==
    LET recipe == toProcess[i]
        sofar  == before \o BeforeIngredients(recipe)
    IN  IF recipe.ingredients = None
        THEN /\ doc' = [doc EXCEPT ![i] = sofar \o << Section("Ingredients", << IngredientsHeading >>) >>]
             /\ exec' = [exec EXCEPT ![i] = "threw"]
             /\ log' = log \cup logged
        ELSE /\ doc' = [doc EXCEPT ![i] = sofar \o FromIngredients(recipe)]
             /\ exec' = [exec EXCEPT ![i] = "ended"]
             /\ log' = log \cup logged \cup { Entry("Created PDF for", i) }

\* line 82 with lines 90-122: the loop takes the next recipe and the Promise
\* executor runs up to its first await, its end or its first exception.
\* An exception inside the async executor rejects the executor's own
\* promise; neither resolve nor reject of the awaited Promise is called.
StartRecipe ==
    /\ Alive /\ pc = "loop" /\ idx <= Len(toProcess)
    /\ LET recipe == toProcess[idx] IN
       IF recipe.name = None
       THEN \* sanitizeFilename(undefined) throws (line 102)
            /\ exec' = [exec EXCEPT ![idx] = "threw"]
            /\ UNCHANGED << stream, doc, log >>
       ELSE /\ stream' = [stream EXCEPT ![idx] = "opening"]
            /\ IF HasPhoto(recipe)
               THEN /\ exec' = [exec EXCEPT ![idx] = "fetching"]
                    /\ doc' = [doc EXCEPT ![idx] = TitleSection(recipe)]
                    /\ UNCHANGED log
               ELSE Finish(idx, TitleSection(recipe), {})
    /\ pc' = "await"
    /\ UNCHANGED << served, maxPDFs, dirExists, dirEnsured, recipes, toProcess, idx,
                    promise, image, files, fatal, warned, exitCode >>

\* the awaited Promise was resolved by 'finish': next iteration
AwaitResolved ==
    /\ Alive /\ pc = "await" /\ promise[idx] = "resolved"
    /\ idx' = idx + 1
    /\ pc' = "loop"
    /\ UNCHANGED << served, maxPDFs, dirExists, dirEnsured, recipes, toProcess,
                    exec, stream, promise, image, doc, files, log, fatal, warned, exitCode >>

\* the awaited Promise was rejected: catch (lines 311-313), next iteration
AwaitRejected ==
    /\ Alive /\ pc = "await" /\ promise[idx] = "rejected"
    /\ log' = log \cup { Entry("Failed to create PDF for", idx) }
    /\ idx' = idx + 1
    /\ pc' = "loop"
    /\ UNCHANGED << served, maxPDFs, dirExists, dirEnsured, recipes, toProcess,
                    exec, stream, promise, image, doc, files, fatal, warned, exitCode >>

\* the for-of loop is exhausted
LoopDone ==
    /\ Alive /\ pc = "loop" /\ idx > Len(toProcess)
    /\ pc' = "summary"
    /\ UNCHANGED << served, maxPDFs, dirExists, dirEnsured, recipes, toProcess, idx,
                    exec, stream, promise, image, doc, files, log, fatal, warned, exitCode >>

\* console.log(`Finished processing ${recipes.length} recipes`) (line 317)
Summary ==
    /\ Alive /\ pc = "summary"
    /\ log' = log \cup { Entry("Finished processing", Len(recipes)) }
    /\ pc' = "teardown"
    /\ UNCHANGED << served, maxPDFs, dirExists, dirEnsured, recipes, toProcess, idx,
                    exec, stream, promise, image, doc, files, fatal, warned, exitCode >>

\* await anylist.teardown(); process.exit(0) (lines 319-320)
Teardown ==
    /\ Alive /\ pc = "teardown"
    /\ pc' = "exited"
    /\ exitCode' = Some(0)
    /\ UNCHANGED << served, maxPDFs, dirExists, dirEnsured, recipes, toProcess, idx,
                    exec, stream, promise, image, doc, files, log, fatal, warned >>

\* downloadRecipes().catch(console.error) (line 323): the rejection is
\* handled, the error printed, and the process ends when the event loop is
\* empty, with the default exit code
TopLevelCatch ==
    /\ Alive /\ pc = "rejected"
    /\ log' = log \cup { Entry(fatal[1], 0) }
    /\ pc' = "exited"
    /\ exitCode' = Some(0)
    /\ UNCHANGED << served, maxPDFs, dirExists, dirEnsured, recipes, toProcess, idx,
                    exec, stream, promise, image, doc, files, fatal, warned >>

-----------------------------------------------------------------------------
(* Event-loop callbacks *)

\* settling a Promise that is already settled has no effect
Settle(i, how) ==
    promise' = [promise EXCEPT ![i] = IF promise[i] = "pending" THEN how ELSE promise[i]]

\* lines 120-148 for recipe i once the download has settled: the image is
\* placed, or the error (downloadImage rejected on a status other than 200
\* or on 'error'; doc.openImage threw on the bytes) is caught and logged by
\* the photo block's own catch
PhotoBlock(i, outcome, dims) ==
    IF outcome = "placed"
    THEN [ doc |-> doc[i] \o ImageSection(toProcess[i], dims), logged |-> {} ]
    ELSE [ doc |-> doc[i], logged |-> { Entry("Failed to add photo for", i) } ]

\* the download of recipe i's photo settles and the executor resumes
ImageDone(i) ==
    /\ Alive /\ i \in DOMAIN exec /\ exec[i] = "fetching"
    /\ \E outcome \in { "placed", "download failed", "decode failed" }, dims \in ImageDims :
          LET photo == PhotoBlock(i, outcome, dims)
          IN  /\ image' = [image EXCEPT ![i] = outcome]
              /\ Finish(i, photo.doc, photo.logged)
    /\ UNCHANGED << served, maxPDFs, dirExists, dirEnsured, pc, recipes, toProcess, idx,
                    stream, promise, files, fatal, warned, exitCode >>

\* fs.createWriteStream(outputPath) has opened the file (flags 'w': created
\* or truncated)
StreamOpen(i) ==
    /\ Alive /\ i \in DOMAIN stream /\ stream[i] = "opening"
    /\ stream' = [stream EXCEPT ![i] = "open"]
    /\ files' = (OutputPath(toProcess[i]) :> [owner |-> i, complete |-> FALSE, content |-> <<>>])
                @@ files
    /\ UNCHANGED << served, maxPDFs, dirExists, dirEnsured, pc, recipes, toProcess, idx,
                    exec, promise, image, doc, log, fatal, warned, exitCode >>

\* stream.on('error', reject) (line 107): the open or a write failed
StreamError(i) ==
    /\ Alive /\ i \in DOMAIN stream /\ stream[i] \in { "opening", "open" }
    /\ stream' = [stream EXCEPT ![i] = "errored"]
    /\ Settle(i, "rejected")
    /\ UNCHANGED << served, maxPDFs, dirExists, dirEnsured, pc, recipes, toProcess, idx,
                    exec, image, doc, files, log, fatal, warned, exitCode >>

\* stream.on('finish', resolve) (line 110): doc.end() was called and all of
\* the document has been flushed to the file
StreamFinish(i) ==
    /\ Alive /\ i \in DOMAIN stream /\ stream[i] = "open" /\ exec[i] = "ended"
    /\ stream' = [stream EXCEPT ![i] = "finished"]
    /\ files' = [files EXCEPT ![OutputPath(toProcess[i])] =
                    [owner |-> i, complete |-> TRUE, content |-> doc[i]]]
    /\ Settle(i, "resolved")
    /\ UNCHANGED << served, maxPDFs, dirExists, dirEnsured, pc, recipes, toProcess, idx,
                    exec, image, doc, log, fatal, warned, exitCode >>

\* The rejection of the executor's own promise has no handler.  What the
\* runtime does with it depends on its unhandled-rejections mode: it ends
\* the process with exit code 1 (the default since Node 15) ...
UnhandledRejectionThrow ==
    /\ Alive /\ ~warned
    /\ \E i \in DOMAIN exec : exec[i] = "threw"
    /\ pc' = "crashed"
    /\ exitCode' = Some(1)
    /\ UNCHANGED << served, maxPDFs, dirExists, dirEnsured, recipes, toProcess, idx,
                    exec, stream, promise, image, doc, files, log, fatal, warned >>

\* ... or it prints a warning and the process goes on, the awaited Promise
\* still pending
UnhandledRejectionWarn ==
    /\ Alive /\ ~warned
    /\ \E i \in DOMAIN exec : exec[i] = "threw"
    /\ warned' = TRUE
    /\ log' = log \cup { Entry("UnhandledPromiseRejectionWarning", 0) }
    /\ UNCHANGED << served, maxPDFs, dirExists, dirEnsured, pc, recipes, toProcess, idx,
                    exec, stream, promise, image, doc, files, fatal, exitCode >>

-----------------------------------------------------------------------------
(* Specifications *)

Next ==
    \/ Login
    \/ GetRecipes
    \/ WriteArchive
    \/ Mkdir
    \/ StartRecipe
    \/ AwaitResolved
    \/ AwaitRejected
    \/ LoopDone
    \/ Summary
    \/ Teardown
    \/ TopLevelCatch
    \/ \E i \in 1..MaxRecipes : ImageDone(i)
    \/ \E i \in 1..MaxRecipes : StreamOpen(i)
    \/ \E i \in 1..MaxRecipes : StreamError(i)
    \/ \E i \in 1..MaxRecipes : StreamFinish(i)
    \/ UnhandledRejectionThrow
    \/ UnhandledRejectionWarn

\* collections of up to MaxRecipes recipes, every limit, directory present or not
Spec == Init /\ [][Next]_vars

\* one recipe, over the presence of every optional field
SpecRender == InitRender /\ [][Next]_vars

\* one recipe, over note and notes
SpecNotes == InitNotes /\ [][Next]_vars

\* one recipe, over the preparationSteps lists
SpecSteps == InitSteps /\ [][Next]_vars

-----------------------------------------------------------------------------
(* Properties of the orchestration *)

\* recipe i has rendering activity in flight: its executor waits for the
\* image download, or its write stream is opening or open
Active(i) == exec[i] = "fetching" \/ stream[i] \in { "opening", "open" }

\* recipe i's document was finished: 'finish' was emitted on its stream
Finished(i) == i \in DOMAIN stream /\ stream[i] = "finished"

PdfPaths == DOMAIN files \ { ArchivePath }

\* C1: an error raised while rendering a recipe is delivered to that
\* recipe's catch (the awaited Promise is rejected), and the run is never
\* ended by it before the summary
C1_PerRecipeIsolation ==
    /\ \A i \in DOMAIN exec : exec[i] = "threw" => promise[i] = "rejected"
    /\ pc # "crashed"

\* C2: a recipe's rendering starts only after every earlier recipe's
\* rendering activity has stopped, and at most one recipe has a download or
\* a write stream in flight
C2_StrictlySequential ==
    /\ \A i, j \in DOMAIN exec : (i < j /\ exec[j] # "idle") => ~Active(i)
    /\ Cardinality({ i \in DOMAIN exec : Active(i) }) <= 1

\* C3: with a positive limit m and every render successful, the run ends
\* with min(n, m) documents, the archive of all n records (present before
\* any rendering starts) and the summary reporting n
C3_EndToEndCounts ==
    /\ (\E i \in DOMAIN exec : exec[i] # "idle") =>
          (ArchivePath \in DOMAIN files /\ files[ArchivePath].content.elements = recipes)
    /\ ( /\ pc = "exited" /\ fatal = None /\ maxPDFs > 0
         /\ \A i \in DOMAIN promise : promise[i] = "resolved" ) =>
          /\ Cardinality(PdfPaths) = Min(Len(recipes), maxPDFs)
          /\ Len(files[ArchivePath].content.elements) = Len(recipes)
          /\ Entry("Finished processing", Len(recipes)) \in log

\* C4: two recipes whose files have been opened have distinct paths, and
\* the file of a finished recipe stays that recipe's complete document
C4_NoOverwrite ==
    /\ \A i, j \in DOMAIN stream :
          (i # j /\ stream[i] \in { "open", "finished" } /\ stream[j] \in { "open", "finished" })
             => OutputPath(toProcess[i]) # OutputPath(toProcess[j])
    /\ \A i \in DOMAIN stream :
          Finished(i) =>
             files[OutputPath(toProcess[i])] = [owner |-> i, complete |-> TRUE, content |-> doc[i]]

\* C5: the selection is the first max recipes when max is positive and all
\* recipes otherwise
C5_SelectionPolicy ==
    dirEnsured =>
       toProcess = IF maxPDFs > 0 THEN SubSeq(recipes, 1, Min(maxPDFs, Len(recipes)))
                                  ELSE recipes

\* C6: the process exits with 0 after a completed batch and with a non-zero
\* code after a fatal failure, in which case no document was rendered
C6_ExitStatus ==
    /\ (exitCode # None /\ Entry("Finished processing", Len(recipes)) \in log)
          => exitCode = Some(0)
    /\ (exitCode # None /\ fatal # None) => exitCode[1] # 0
    /\ fatal # None => PdfPaths = {}

\* C10: no file is written before the mkdir step has run, and no run fails
\* on the archive because the directory is missing
C10_DirectoryBeforeWrite ==
    /\ DOMAIN files # {} => dirEnsured
    /\ fatal # Some("ENOENT")

-----------------------------------------------------------------------------
(* Properties of the rendered document *)

\* the document in recipe i's file
Content(i) == files[OutputPath(toProcess[i])].content

Kinds(d) == [k \in 1..Len(d) |-> d[k].kind]

MandatoryKinds == << "Title", "Created", "Rating", "Ingredients" >>

IsMandatory(kind) == kind \in { "Title", "Created", "Rating", "Ingredients" }

ImageFailed(i) == image[i] \in { "download failed", "decode failed" }

\* a string field is present: it exists and is not empty
Present(o) == o # None /\ o[1] # ""

\* the kinds of the sections of the section policy, in order, for a recipe
\* of RenderRecipes (whose fields, when they exist, are not empty)
PolicyKinds(r, withImage) ==
    << "Title" >> \o
    (IF withImage THEN << "Image" >> ELSE <<>>) \o
    << "Created" >> \o
    (IF r.sourceName # None \/ r.sourceUrl # None THEN << "Source" >> ELSE <<>>) \o
    (IF r.servings # None THEN << "Servings" >> ELSE <<>>) \o
    << "Rating" >> \o
    (IF r.prepTime # None \/ r.cookTime # None THEN << "Times" >> ELSE <<>>) \o
    (IF r.categories # None THEN << "Categories" >> ELSE <<>>) \o
    (IF r.notes # None THEN << "Notes" >> ELSE <<>>) \o
    << "Ingredients" >> \o
    (IF r.instructions # None THEN << "Instructions" >> ELSE <<>>) \o
    (IF r.preparationSteps # None THEN << "Preparation Steps" >> ELSE <<>>) \o
    (IF r.note # None \/ r.notes # None THEN << "Notes" >> ELSE <<>>) \o
    (IF r.nutritionalInfo # None THEN << "Nutritional Information" >> ELSE <<>>)

\* C7: for a recipe with an ingredients list, the finished document holds
\* Title, Created, Rating and Ingredients in this order, Rating reading
\* "No rating available" when there is no rating; a failed image removes
\* only the Image section, is logged, and neither stops the executor before
\* doc.end() nor rejects the recipe's Promise nor ends the run
C7_MandatorySections ==
    \A i \in DOMAIN exec :
       toProcess[i].ingredients # None =>
          /\ Finished(i) =>
                LET d == Content(i)
                    r == toProcess[i]
                    rating == d[CHOOSE k \in 1..Len(d) : d[k].kind = "Rating"]
                IN  /\ SelectSeq(Kinds(d), IsMandatory) = MandatoryKinds
                    /\ r.rating = None => rating.runs[2].text = << " No rating available" >>
                    /\ Kinds(d) = PolicyKinds(r, image[i] = "placed")
          /\ ImageFailed(i) =>
                /\ Entry("Failed to add photo for", i) \in log
                /\ exec[i] = "ended"
                /\ Kinds(doc[i]) = PolicyKinds(toProcess[i], FALSE)
                /\ promise[i] = "rejected" => stream[i] = "errored"
                /\ pc # "crashed" /\ ~warned /\ fatal = None

\* a recipe without optional fields and with an empty ingredients list,
\* whose image download failed, has its document finished
C7_Witness ==
    /\ Finished(1)
    /\ image[1] = "download failed"
    /\ toProcess[1].rating = None
    /\ toProcess[1].ingredients = Some(<<>>)
    /\ toProcess[1].notes = None

\* C8: in a finished document a Notes block before Ingredients exists iff
\* notes is present, with body notes; a Notes block after Ingredients (and
\* after Preparation Steps) exists iff note or notes is present, with body
\* note when note is present and notes otherwise
C8_DualNotes ==
    \A i \in DOMAIN exec :
       Finished(i) =>
          LET d == Content(i)
              r == toProcess[i]
              ing == CHOOSE k \in 1..Len(d) : d[k].kind = "Ingredients"
              early == { k \in 1..Len(d) : k < ing /\ d[k].kind = "Notes" }
              late  == { k \in 1..Len(d) : k > ing /\ d[k].kind = "Notes" }
          IN  /\ Cardinality(early) = IF Present(r.notes) THEN 1 ELSE 0
              /\ \A k \in early : d[k].runs[2].text = r.notes[1]
              /\ Cardinality(late) = IF Present(r.note) \/ Present(r.notes) THEN 1 ELSE 0
              /\ \A k \in late :
                    /\ d[k].runs[2].text = IF Present(r.note) THEN r.note[1] ELSE r.notes[1]
                    /\ \A p \in 1..Len(d) : d[p].kind = "Preparation Steps" => p < k

\* with note = "A" and notes = "B" the finished document has two Notes blocks
C8_Witness ==
    /\ Finished(1)
    /\ toProcess[1].note = Some("A") /\ toProcess[1].notes = Some("B")
    /\ Cardinality({ k \in 1..Len(Content(1)) : Content(1)[k].kind = "Notes" }) = 2

\* s without its leading and trailing spaces
Trimmed(s) ==
    CHOOSE t \in { SubSeq(s, a, b) : a \in 1..(Len(s) + 1), b \in 0..Len(s) } :
       /\ \E a \in 1..(Len(s) + 1), b \in 0..Len(s) :
             /\ t = SubSeq(s, a, b)
             /\ \A k \in 1..Len(s) : (k < a \/ k > b) => s[k] = " "
       /\ t # <<>> => (t[1] # " " /\ t[Len(t)] # " ")

\* C9: in a finished document the Preparation Steps section holds, after
\* its heading and in input order, for each entry either one bold run with
\* the trimmed entry less its leading # (trimmed again), or the bold run
\* "k." and the regular run of the trimmed entry, k being one more than the
\* number of earlier entries that do not start with #
C9_StepNumbering ==
    \A i \in DOMAIN exec :
       (Finished(i) /\ toProcess[i].preparationSteps # None
                    /\ toProcess[i].preparationSteps[1] # <<>>) =>
          LET d == Content(i)
              steps == toProcess[i].preparationSteps[1]
              sec == d[CHOOSE k \in 1..Len(d) : d[k].kind = "Preparation Steps"]
              runs == Tail(sec.runs)
              T(p) == Trimmed(steps[p])
              H(p) == T(p) # <<>> /\ T(p)[1] = "#"
              headings(p) == Cardinality({ q \in 1..(p - 1) : H(q) })
              numbered(p) == Cardinality({ q \in 1..(p - 1) : ~H(q) })
              off(p) == headings(p) + 2 * numbered(p)
          IN  /\ Cardinality({ k \in 1..Len(d) : d[k].kind = "Preparation Steps" }) = 1
              /\ Len(runs) = off(Len(steps) + 1)
              /\ \A p \in 1..Len(steps) :
                    IF H(p)
                    THEN runs[off(p) + 1] =
                            [font |-> Bold, text |-> Trimmed(SubSeq(T(p), 2, Len(T(p))))]
                    ELSE /\ runs[off(p) + 1] = [font |-> Bold, text |-> << numbered(p) + 1, "." >>]
                         /\ runs[off(p) + 2] = [font |-> Regular, text |-> << " " >> \o T(p)]

\* a heading entry followed by two numbered entries with spaces around them
\* has been rendered
C9_Witness ==
    /\ Finished(1)
    /\ toProcess[1].preparationSteps =
          Some(<< << "#", " ", "x" >>, << " ", "x" >>, << "x", " " >> >>)

=============================================================================
